---- MODULE Spec2Model ----
(***************************************************************************)
(* Model of the BLE car controller (src/app/index.tsx, two App variants)   *)
(* and of the vehicle firmware (src/unnamed/part_000, an Arduino sketch).  *)
(*                                                                         *)
(* Wire strings are sequences of one-character strings: "FR" is            *)
(* <<"F","R">>.                                                            *)
(***************************************************************************)
EXTENDS Integers, Sequences, FiniteSets, TLC

\* ------------------------------------------------------------------------
\* Bounds of the model
\* ------------------------------------------------------------------------

\* Largest number of bytes waiting in the vehicle's serial receive queue.
MaxSerial == 2

\* Largest number of scanForDevices calls suspended at an await at once.
MaxScanCalls == 2

\* Largest number of pending scan timers that scanTimeout.current no longer names.
MaxOrphanTimers == 1

\* Largest number of entries of the working copy that differ from the defaults.
MaxEdited == 1

\* ------------------------------------------------------------------------
\* Vehicle firmware (src/unnamed/part_000)
\* ------------------------------------------------------------------------

VARIABLES
  serial,               \* bytes received and not yet read (Serial.available/read)
  G_Bluetooth_value,    \* the accumulation buffer
  BLE_Change_SPEED,     \* the locally held speed
  lastMovementCommand,  \* last movement command, as the sketch's String
  pins,                 \* [d2, a5, d4, a6]: digital pins 2, 4 and PWM pins 5, 6
  decoded               \* branch taken by the last evaluation pass ("None" before any)

vehicleVars ==
  <<serial, G_Bluetooth_value, BLE_Change_SPEED, lastMovementCommand, pins, decoded>>

\* Bytes the serial line can deliver: the protocol's characters and one other.
SerialChars == {"F", "B", "L", "R", "S", "+", "-", "/", "X"}

Diagonals == {"FR", "FL", "BR", "BL"}
Singles == {"F", "B", "L", "R"}
Movements == Singles \cup {"S"} \cup Diagonals
SpeedCommands == {"+", "-", "/"}

\* String::startsWith for a buffer and a two-character prefix
StartsWith(buf, a, b) == Len(buf) >= 2 /\ buf[1] = a /\ buf[2] = b

\* Mutant of FullDuty: the multiplier is 2.25.
FullDutyTenth(spd) == ((spd \div 10) * 225) \div 100

\* analogWrite takes an int: the float product is truncated towards zero.
\* (BLE_Change_SPEED / 10) is an integer division; 22.5 = 225/10.
FullDuty(spd) == ((spd \div 10) * 225) \div 10

\* (BLE_Change_SPEED / 10) * 11.25, truncated; 11.25 = 1125/100.
HalfDuty(spd) == ((spd \div 10) * 1125) \div 100

\* Mutant of executeMovement: FL drives the sides as FR does.
executeMovementFLAsFR(command, spd, old) ==
  CASE command = "F"  -> [d2 |-> "HIGH", a5 |-> FullDuty(spd), d4 |-> "LOW",  a6 |-> FullDuty(spd)]
    [] command = "B"  -> [d2 |-> "LOW",  a5 |-> FullDuty(spd), d4 |-> "HIGH", a6 |-> FullDuty(spd)]
    [] command = "L"  -> [d2 |-> "LOW",  a5 |-> HalfDuty(spd), d4 |-> "LOW",  a6 |-> HalfDuty(spd)]
    [] command = "R"  -> [d2 |-> "HIGH", a5 |-> HalfDuty(spd), d4 |-> "HIGH", a6 |-> HalfDuty(spd)]
    [] command = "S"  -> [d2 |-> "LOW",  a5 |-> 0,             d4 |-> "LOW",  a6 |-> 0]
    [] command = "FR" -> [d2 |-> "HIGH", a5 |-> FullDuty(spd), d4 |-> "LOW",  a6 |-> HalfDuty(spd)]
    [] command = "FL" -> [d2 |-> "HIGH", a5 |-> FullDuty(spd), d4 |-> "LOW",  a6 |-> HalfDuty(spd)]
    [] command = "BR" -> [d2 |-> "LOW",  a5 |-> FullDuty(spd), d4 |-> "HIGH", a6 |-> HalfDuty(spd)]
    [] command = "BL" -> [d2 |-> "LOW",  a5 |-> HalfDuty(spd), d4 |-> "HIGH", a6 |-> FullDuty(spd)]
    [] OTHER -> old

\* executeMovement(command, value): the four pin writes of the matching
\* branch; a command matching no branch writes nothing.
executeMovement(command, spd, old) ==
  CASE command = "F"  -> [d2 |-> "HIGH", a5 |-> FullDuty(spd), d4 |-> "LOW",  a6 |-> FullDuty(spd)]
    [] command = "B"  -> [d2 |-> "LOW",  a5 |-> FullDuty(spd), d4 |-> "HIGH", a6 |-> FullDuty(spd)]
    [] command = "L"  -> [d2 |-> "LOW",  a5 |-> HalfDuty(spd), d4 |-> "LOW",  a6 |-> HalfDuty(spd)]
    [] command = "R"  -> [d2 |-> "HIGH", a5 |-> HalfDuty(spd), d4 |-> "HIGH", a6 |-> HalfDuty(spd)]
    [] command = "S"  -> [d2 |-> "LOW",  a5 |-> 0,             d4 |-> "LOW",  a6 |-> 0]
    [] command = "FR" -> [d2 |-> "HIGH", a5 |-> FullDuty(spd), d4 |-> "LOW",  a6 |-> HalfDuty(spd)]
    [] command = "FL" -> [d2 |-> "HIGH", a5 |-> HalfDuty(spd), d4 |-> "LOW",  a6 |-> FullDuty(spd)]
    [] command = "BR" -> [d2 |-> "LOW",  a5 |-> FullDuty(spd), d4 |-> "HIGH", a6 |-> HalfDuty(spd)]
    [] command = "BL" -> [d2 |-> "LOW",  a5 |-> HalfDuty(spd), d4 |-> "HIGH", a6 |-> FullDuty(spd)]
    [] OTHER -> old

\* Mutant of Decode: the single-character switch is consulted before the
\* diagonal prefixes.
DecodeSingleFirst(cmd) ==
  IF cmd[1] \in Singles \cup {"S"} \cup SpeedCommands THEN cmd[1]
  ELSE "Invalid"

\* Mutant of Decode: the switch is on the last character of the buffer.
DecodeLastChar(cmd) ==
  IF StartsWith(cmd, "F", "R") THEN "FR"
  ELSE IF StartsWith(cmd, "F", "L") THEN "FL"
  ELSE IF StartsWith(cmd, "B", "R") THEN "BR"
  ELSE IF StartsWith(cmd, "B", "L") THEN "BL"
  ELSE IF cmd[Len(cmd)] \in Singles \cup {"S"} \cup SpeedCommands THEN cmd[Len(cmd)]
  ELSE "Invalid"

\* Mutant of Decode: the whole buffer has to be one command.
DecodeWholeBuffer(cmd) ==
  IF Len(cmd) = 2 /\ StartsWith(cmd, "F", "R") THEN "FR"
  ELSE IF Len(cmd) = 2 /\ StartsWith(cmd, "F", "L") THEN "FL"
  ELSE IF Len(cmd) = 2 /\ StartsWith(cmd, "B", "R") THEN "BR"
  ELSE IF Len(cmd) = 2 /\ StartsWith(cmd, "B", "L") THEN "BL"
  ELSE IF Len(cmd) = 1 /\ cmd[1] \in Singles \cup {"S"} \cup SpeedCommands THEN cmd[1]
  ELSE "Invalid"

\* The branch of loop() a non-empty buffer selects: the startsWith chain
\* (FR, FL, BR, BL), then the switch on charAt(0).
Decode(cmd) ==
  IF StartsWith(cmd, "F", "R") THEN "FR"
  ELSE IF StartsWith(cmd, "F", "L") THEN "FL"
  ELSE IF StartsWith(cmd, "B", "R") THEN "BR"
  ELSE IF StartsWith(cmd, "B", "L") THEN "BL"
  ELSE IF cmd[1] \in Singles THEN cmd[1]
  ELSE IF cmd[1] = "S" THEN "S"
  ELSE IF cmd[1] = "+" THEN "+"
  ELSE IF cmd[1] = "-" THEN "-"
  ELSE IF cmd[1] = "/" THEN "/"
  ELSE "Invalid"

\* Mutant of SpeedAfter: the upper and lower clamps are missing.
SpeedAfterNoClamp(branch, spd) ==
  CASE branch = "+" -> spd + 10
    [] branch = "-" -> spd - 10
    [] branch = "/" -> 50
    [] OTHER -> spd

\* BLE_Change_SPEED after the branch: case '+', case '-', case '/'.
SpeedAfter(branch, spd) ==
  CASE branch = "+" -> (IF spd + 10 > 100 THEN 100 ELSE spd + 10)
    [] branch = "-" -> (IF spd - 10 < 0 THEN 0 ELSE spd - 10)
    [] branch = "/" -> 50
    [] OTHER -> spd

\* Mutant of LastAfter: case 'S' stops the motors without recording Stop.
LastAfterStopNotRecorded(branch, last) ==
  IF branch \in Diagonals \cup Singles THEN branch ELSE last

\* lastMovementCommand after the branch: assigned by the diagonal branches
\* and by the cases F, B, L, R and S only.
LastAfter(branch, last) ==
  IF branch \in Movements THEN branch ELSE last

\* Mutant of PinsAfter: the default case stops the motors.
PinsAfterInvalidStops(branch, last, spd, old) ==
  IF branch = "Invalid" THEN executeMovement("S", spd, old)
  ELSE IF branch \in Movements THEN executeMovement(branch, spd, old)
  ELSE executeMovement(last, spd, old)

\* Mutant of PinsAfter: the speed cases do not re-issue the last movement.
PinsAfterNoReissue(branch, last, spd, old) ==
  IF branch \in Movements THEN executeMovement(branch, spd, old) ELSE old

\* The pins after the branch. A movement branch executes that movement, a
\* speed case executes lastMovementCommand at the new speed (spd is the
\* speed after the case's assignment), the default case writes nothing.
PinsAfter(branch, last, spd, old) ==
  IF branch \in Movements THEN executeMovement(branch, spd, old)
  ELSE IF branch \in SpeedCommands THEN executeMovement(last, spd, old)
  ELSE old

\* setup(): the state the sketch starts loop() in.
setup ==
  /\ serial = <<>>
  /\ G_Bluetooth_value = <<>>
  /\ BLE_Change_SPEED = 50
  /\ lastMovementCommand = "S"
  /\ pins = [d2 |-> "LOW", a5 |-> 0, d4 |-> "LOW", a6 |-> 0]
  /\ decoded = "None"

\* A byte arrives on the serial line.
SerialArrive ==
  /\ Len(serial) < MaxSerial
  /\ \E c \in SerialChars : serial' = Append(serial, c)
  /\ UNCHANGED <<G_Bluetooth_value, BLE_Change_SPEED, lastMovementCommand, pins, decoded>>

\* Mutant of loop: a buffer the switch does not recognise is kept for the
\* next pass.
loopKeepsUnmatched ==
  LET cmd == G_Bluetooth_value \o serial IN
  /\ serial' = <<>>
  /\ IF Len(cmd) > 0
     THEN LET branch == Decode(cmd)
              spd == SpeedAfter(branch, BLE_Change_SPEED)
          IN /\ decoded' = branch
             /\ BLE_Change_SPEED' = spd
             /\ lastMovementCommand' = LastAfter(branch, lastMovementCommand)
             /\ pins' = PinsAfter(branch, lastMovementCommand, spd, pins)
             /\ G_Bluetooth_value' = IF branch = "Invalid" /\ Len(cmd) < MaxSerial THEN cmd ELSE <<>>
     ELSE /\ G_Bluetooth_value' = cmd
          /\ UNCHANGED <<BLE_Change_SPEED, lastMovementCommand, pins, decoded>>

\* One iteration of loop(): read every available byte into the buffer, then,
\* if the buffer is not empty, evaluate and clear it.
loop ==
  LET cmd == G_Bluetooth_value \o serial IN
  /\ serial' = <<>>
  /\ IF Len(cmd) > 0
     THEN LET branch == Decode(cmd)
              spd == SpeedAfter(branch, BLE_Change_SPEED)
          IN /\ decoded' = branch
             /\ BLE_Change_SPEED' = spd
             /\ lastMovementCommand' = LastAfter(branch, lastMovementCommand)
             /\ pins' = PinsAfter(branch, lastMovementCommand, spd, pins)
             /\ G_Bluetooth_value' = <<>>
     ELSE /\ G_Bluetooth_value' = cmd
          /\ UNCHANGED <<BLE_Change_SPEED, lastMovementCommand, pins, decoded>>

\* ------------------------------------------------------------------------
\* Controller application (src/app/index.tsx)
\* ------------------------------------------------------------------------

VARIABLES
  variant,              \* which App of index.tsx runs: "gesture" (first) or "tap" (second)
  inRange,              \* the named peripherals that advertise within range
  gatt,                 \* per peripheral, the services and characteristics it enumerates
  device,               \* useState device: a device id or NULL
  connectedDeviceId,    \* useState connectedDeviceId
  serviceUUID,          \* useState serviceUUID
  characteristicUUID,   \* useState characteristicUUID
  isScanning,           \* useState isScanning
  showDeviceModal,      \* useState showDeviceModal
  devicesMap,           \* useState devicesMap: the ids it holds
  speed,                \* useState speed
  showSettings,         \* useState showSettings
  commandMap,           \* useState commandMap (the active mapping)
  editMap,              \* useState editMap (the working copy)
  scanTimeout,          \* the timer scanTimeout.current names: "null", "pending" or "done"
  orphanTimers,         \* pending scan timers scanTimeout.current no longer names
  scanning,             \* the BleManager has a device scan in flight
  scanCalls,            \* scanForDevices calls suspended at an await: [check, perm]
  conn,                 \* per device, where its connectToDevice call is suspended
  disc,                 \* device captured by a disconnectDevice call awaiting cancelConnection
  periph,               \* peripherals connected at the BleManager
  pressed,              \* the active long-press gesture: [key, sent], key NULL when none
  out                   \* what the last step did: writes of sendCommand, and alerts

ctlVars ==
  <<variant, inRange, gatt, device, connectedDeviceId, serviceUUID, characteristicUUID, isScanning,
    showDeviceModal, devicesMap, speed, showSettings, commandMap, editMap, scanTimeout,
    orphanTimers, scanning, scanCalls, conn, disc, periph, pressed, out>>

vars == <<ctlVars, vehicleVars>>

NULL == "null"

Variants == {"gesture", "tap"}

\* Peripherals in range. d1 and d2 advertise a name, a1 and a2 do not.
Devices == {"d1", "d2"}
Anonymous == {"a1", "a2"}
\* Mutant of HasName: the name test of the scan callback is missing.
HasNameAny(id) == TRUE

HasName(id) == id \in Devices

\* The most characteristics a peripheral of the resolver's inputs has
MaxEndpoints == 3

\* The peripherals of the sessions: per service its uuid and, per
\* characteristic, its uuid and the two write flags. d1 has its first
\* writable characteristic second in its second service, d2 has none.
DefaultGatt ==
  [d \in Devices |->
     IF d = "d1"
     THEN << [uuid |-> "s0", chars |-> << [uuid |-> "c0", wr |-> FALSE, wnr |-> FALSE] >>],
             [uuid |-> "s1", chars |-> << [uuid |-> "c1", wr |-> FALSE, wnr |-> FALSE],
                                          [uuid |-> "c2", wr |-> FALSE, wnr |-> TRUE],
                                          [uuid |-> "c3", wr |-> TRUE, wnr |-> FALSE] >>] >>
     ELSE << [uuid |-> "s2", chars |-> << [uuid |-> "c4", wr |-> FALSE, wnr |-> FALSE] >>] >>]

\* Write flags of a characteristic: not writable, writable with response,
\* writable without response.
FlagKinds ==
  {[wr |-> FALSE, wnr |-> FALSE], [wr |-> TRUE, wnr |-> FALSE], [wr |-> FALSE, wnr |-> TRUE]}

\* The flag lists of at most n characteristics
RECURSIVE FlagLists(_)
FlagLists(n) ==
  IF n = 0 THEN {<<>>}
  ELSE LET shorter == FlagLists(n - 1) IN
       shorter \cup {Append(l, k) : l \in {x \in shorter : Len(x) = n - 1}, k \in FlagKinds}

\* The tables of at most k services with at most n characteristics in all
RECURSIVE FlagTables(_, _)
FlagTables(n, k) ==
  IF k = 0 THEN {<<>>}
  ELSE {<<>>} \cup
       UNION {{<<c>> \o t : t \in FlagTables(n - Len(c), k - 1)} : c \in FlagLists(n)}

SvcNames == <<"sa", "sb", "sc", "sd">>
ChrNames ==
  << <<"ca1", "ca2", "ca3", "ca4">>, <<"cb1", "cb2", "cb3", "cb4">>,
     <<"cc1", "cc2", "cc3", "cc4">>, <<"cd1", "cd2", "cd3", "cd4">> >>

\* A flag table with the uuids of its services and characteristics
Named(t) ==
  [i \in 1..Len(t) |->
     [uuid |-> SvcNames[i],
      chars |-> [j \in 1..Len(t[i]) |->
                   [uuid |-> ChrNames[i][j], wr |-> t[i][j].wr, wnr |-> t[i][j].wnr]]]]

\* The peripherals the resolver is run on: d1 with any table of at most
\* MaxEndpoints services and MaxEndpoints characteristics in all.
ResolverGatts ==
  {[DefaultGatt EXCEPT !["d1"] = Named(t)] : t \in FlagTables(MaxEndpoints, MaxEndpoints)}

\* What discovered.services() and service.characteristics() enumerate
Services(d) == gatt[d]

Keys == {"F", "B", "L", "R", "S", "+", "-"}
DpadKeys == {"F", "B", "L", "R", "S"}

\* Mutant of DEFAULT_COMMANDS: Left and Right carry each other's symbol.
DEFAULT_COMMANDS_LeftRightSwapped ==
  [k \in Keys |-> IF k = "L" THEN <<"R">> ELSE IF k = "R" THEN <<"L">> ELSE <<k>>]

DEFAULT_COMMANDS == [k \in Keys |-> <<k>>]

\* maxLength of a command field: the field never holds a longer text.
maxLength == 12

\* Texts a command field of the settings panel hands to onChangeText: the
\* emptied field, a two-character text and one of maxLength characters.
EditValues == {<<>>, <<"U", "P">>, [i \in 1..maxLength |-> "A"]}

\* Deltas handleSpeedChange is called with. The speed buttons pass 10 and
\* -10; 20 and -20 exercise the step loop with more than one step.
Deltas == {-20, -10, 10, 20}

Write(dev, svc, chr, command) ==
  [kind |-> "write", dev |-> dev, svc |-> svc, chr |-> chr, cmd |-> command]

\* No gesture is active.
NoPress == [key |-> NULL, sent |-> FALSE]

IsWrite(e) == e.kind = "write"

NotConnected(command) ==
  [kind |-> "alert", dev |-> NULL, svc |-> NULL, chr |-> NULL, cmd |-> command]

\* The alert of scanForDevices when Bluetooth or location is off
CapabilityAlert == [kind |-> "off", dev |-> NULL, svc |-> NULL, chr |-> NULL, cmd |-> <<>>]

\* Mutant of sendCommand: the guard tests the device only.
sendCommandDeviceOnly(dev, svc, chr, command) ==
  IF dev = NULL THEN <<NotConnected(command)>> ELSE <<Write(dev, svc, chr, command)>>

\* sendCommand(command) of a render whose state is (dev, svc, chr): the
\* alert and early return, or the characteristic write.
sendCommand(dev, svc, chr, command) ==
  IF dev = NULL \/ svc = NULL \/ chr = NULL
  THEN <<NotConnected(command)>>
  ELSE <<Write(dev, svc, chr, command)>>

\* Mutant of FirstWritable: only isWritableWithResponse is tested.
RECURSIVE FirstWritableWithResponse(_)
FirstWritableWithResponse(chars) ==
  IF chars = <<>> THEN NULL
  ELSE IF Head(chars).wr THEN Head(chars).uuid
  ELSE FirstWritableWithResponse(Tail(chars))

\* The first writable characteristic of a characteristic list, or NULL.
RECURSIVE FirstWritable(_)
FirstWritable(chars) ==
  IF chars = <<>> THEN NULL
  ELSE IF Head(chars).wr \/ Head(chars).wnr THEN Head(chars).uuid
  ELSE FirstWritable(Tail(chars))

\* The resolver loop of connectToDevice: <<foundService, foundChar>>.
RECURSIVE Resolver(_)
Resolver(services) ==
  IF services = <<>> THEN <<NULL, NULL>>
  ELSE LET c == FirstWritable(Head(services).chars) IN
       IF c # NULL THEN <<Head(services).uuid, c>> ELSE Resolver(Tail(services))

\* Mutant of NextSpeed: the upper clamp is missing.
NextSpeedNoClamp(prev, delta) ==
  IF prev + delta < 0 THEN 0 ELSE prev + delta

\* next of handleSpeedChange: prev + delta clamped to [0, 100].
NextSpeed(prev, delta) ==
  IF prev + delta > 100 THEN 100
  ELSE IF prev + delta < 0 THEN 0
  ELSE prev + delta

Abs(n) == IF n < 0 THEN 0 - n ELSE n

\* Mutant of StepCommands: one command whatever the number of steps.
StepCommandsOnce(prev, next, delta, map, dev, svc, chr) ==
  sendCommand(dev, svc, chr, IF delta > 0 THEN map["+"] ELSE map["-"])

\* The sendCommand calls of handleSpeedChange's loop: steps calls with cmd.
StepCommands(prev, next, delta, map, dev, svc, chr) ==
  LET steps == Abs(next - prev) \div 10
      cmd == IF delta > 0 THEN map["+"] ELSE map["-"]
      RECURSIVE Rep(_)
      Rep(i) == IF i >= steps THEN <<>> ELSE sendCommand(dev, svc, chr, cmd) \o Rep(i + 1)
  IN Rep(0)

\* The connect effect of the first App (dependencies device, serviceUUID,
\* characteristicUUID): it runs when one of them changed, and acts when all
\* three are set. The second App has no such effect.
EffectActs(v, dev, svc, chr, dev2, svc2, chr2) ==
  /\ v = "gesture"
  /\ <<dev, svc, chr>> # <<dev2, svc2, chr2>>
  /\ dev2 # NULL /\ svc2 # NULL /\ chr2 # NULL

\* Renders the new session state and runs the connect effect on it.
Commit(dev2, svc2, chr2) ==
  LET acts == EffectActs(variant, device, serviceUUID, characteristicUUID, dev2, svc2, chr2) IN
  /\ device' = dev2
  /\ serviceUUID' = svc2
  /\ characteristicUUID' = chr2
  /\ out' = IF acts THEN sendCommand(dev2, svc2, chr2, <<"/">>) ELSE <<>>
  /\ speed' = IF acts THEN 50 ELSE speed

\* clearTimeout(scanTimeout.current), guarded by the ref being set
ClearedTimer(t) == IF t = "pending" THEN "done" ELSE t

mapVars == <<showSettings, commandMap, editMap>>
sessVars == <<device, connectedDeviceId, serviceUUID, characteristicUUID>>
scanVars == <<isScanning, showDeviceModal, devicesMap, scanTimeout, orphanTimers, scanning, scanCalls>>
linkVars == <<conn, disc, periph>>

CtlInit ==
  /\ variant \in Variants
  /\ inRange \in SUBSET Devices
  /\ gatt \in {DefaultGatt} \cup ResolverGatts
  /\ device = NULL
  /\ connectedDeviceId = NULL
  /\ serviceUUID = NULL
  /\ characteristicUUID = NULL
  /\ isScanning = FALSE
  /\ showDeviceModal = FALSE
  /\ devicesMap = {}
  /\ speed = 50
  /\ showSettings = FALSE
  /\ commandMap = DEFAULT_COMMANDS
  /\ editMap = DEFAULT_COMMANDS
  /\ scanTimeout = NULL
  /\ orphanTimers = 0
  /\ scanning = FALSE
  /\ scanCalls = [check |-> 0, perm |-> 0]
  /\ conn = [d \in Devices |-> "idle"]
  /\ disc = NULL
  /\ periph = {}
  /\ pressed = NoPress
  /\ out = <<>>

\* ---- scanning ----------------------------------------------------------

\* A control of the main screen can be touched: no Modal covers it.
MainScreen == ~showDeviceModal /\ ~showSettings

\* Connect button (shown while device is null, disabled while scanning):
\* scanForDevices() runs up to its first await.
scanForDevices ==
  /\ MainScreen /\ device = NULL /\ ~isScanning
  /\ scanCalls.check + scanCalls.perm < MaxScanCalls
  /\ scanCalls' = [scanCalls EXCEPT !.check = @ + 1]
  /\ out' = <<>>
  /\ UNCHANGED <<variant, inRange, gatt, sessVars, isScanning, showDeviceModal, devicesMap, scanTimeout,
                 orphanTimers, scanning, speed, mapVars, linkVars, pressed, vehicleVars>>

\* Refresh button of the device list (disabled while scanning): stops the
\* scan, clears the timer, and calls scanForDevices().
Refresh ==
  /\ showDeviceModal /\ ~isScanning
  /\ scanCalls.check + scanCalls.perm < MaxScanCalls
  /\ scanning' = FALSE
  /\ scanTimeout' = ClearedTimer(scanTimeout)
  /\ scanCalls' = [scanCalls EXCEPT !.check = @ + 1]
  /\ out' = <<>>
  /\ UNCHANGED <<variant, inRange, gatt, sessVars, isScanning, showDeviceModal, devicesMap, orphanTimers,
                 speed, mapVars, linkVars, pressed, vehicleVars>>

\* Mutant of ScanCheckedAs: the scan is stopped and the list emptied before
\* the capability checks.
ScanCheckedClearsFirst(capable) ==
  /\ scanCalls.check > 0
  /\ scanning' = FALSE
  /\ scanTimeout' = ClearedTimer(scanTimeout)
  /\ devicesMap' = {}
  /\ IF capable
     THEN /\ isScanning' = TRUE
          /\ showDeviceModal' = TRUE
          /\ scanCalls' = [check |-> scanCalls.check - 1, perm |-> scanCalls.perm + 1]
          /\ out' = <<>>
     ELSE /\ scanCalls' = [scanCalls EXCEPT !.check = @ - 1]
          /\ out' = <<CapabilityAlert>>
          /\ UNCHANGED <<isScanning, showDeviceModal>>
  /\ UNCHANGED <<variant, inRange, gatt, sessVars, orphanTimers, speed, mapVars, linkVars, pressed,
                 vehicleVars>>

\* scanForDevices() resumes with the Bluetooth state and the location
\* status. Off: an alert and return. On: the previous scan is stopped, its
\* timer cleared, the list emptied, and the call awaits the permissions.
ScanCheckedAs(capable) ==
  /\ scanCalls.check > 0
  /\ IF capable
     THEN /\ scanning' = FALSE
          /\ scanTimeout' = ClearedTimer(scanTimeout)
          /\ devicesMap' = {}
          /\ isScanning' = TRUE
          /\ showDeviceModal' = TRUE
          /\ scanCalls' = [check |-> scanCalls.check - 1, perm |-> scanCalls.perm + 1]
          /\ out' = <<>>
     ELSE /\ scanCalls' = [scanCalls EXCEPT !.check = @ - 1]
          /\ out' = <<CapabilityAlert>>
          /\ UNCHANGED <<scanning, scanTimeout, devicesMap, isScanning, showDeviceModal>>
  /\ UNCHANGED <<variant, inRange, gatt, sessVars, orphanTimers, speed, mapVars, linkVars, pressed,
                 vehicleVars>>

ScanChecked == \E capable \in BOOLEAN : ScanCheckedAs(capable)

\* scanForDevices() resumes with the permission result. Refused: the flags
\* are reset. Granted: startDeviceScan and a new timer in scanTimeout.current
\* (a timer the ref named and nobody cleared stays pending); startDeviceScan
\* throwing resets the flags and clears the ref's timer.
ScanPermittedAs(result) ==
  /\ scanCalls.perm > 0
  /\ scanCalls' = [scanCalls EXCEPT !.perm = @ - 1]
  /\   CASE result = "refused" ->
              /\ isScanning' = FALSE
              /\ showDeviceModal' = FALSE
              /\ UNCHANGED <<scanning, scanTimeout, orphanTimers>>
         [] result = "started" ->
              /\ scanTimeout = "pending" => orphanTimers < MaxOrphanTimers
              /\ scanning' = TRUE
              /\ orphanTimers' = IF scanTimeout = "pending" THEN orphanTimers + 1 ELSE orphanTimers
              /\ scanTimeout' = "pending"
              /\ UNCHANGED <<isScanning, showDeviceModal>>
         [] result = "threw" ->
              /\ isScanning' = FALSE
              /\ showDeviceModal' = FALSE
              /\ scanTimeout' = ClearedTimer(scanTimeout)
              /\ UNCHANGED <<scanning, orphanTimers>>
  /\ out' = <<>>
  /\ UNCHANGED <<variant, inRange, gatt, sessVars, devicesMap, speed, mapVars, linkVars, pressed,
                 vehicleVars>>

ScanPermitted == \E result \in {"refused", "started", "threw"} : ScanPermittedAs(result)

\* The scan callback with a scanned device: kept when it has a name and its
\* id is not in the map yet.
ScanObserved ==
  /\ scanning
  /\ \E id \in inRange \cup Anonymous :
       devicesMap' = IF HasName(id) THEN devicesMap \cup {id} ELSE devicesMap
  /\ out' = <<>>
  /\ UNCHANGED <<variant, inRange, gatt, sessVars, isScanning, showDeviceModal, scanTimeout, orphanTimers,
                 scanning, scanCalls, speed, mapVars, linkVars, pressed, vehicleVars>>

\* The scan callback with an error. Whether the manager keeps scanning after
\* it is the library's matter: both outcomes are allowed.
ScanFailed ==
  /\ scanning
  /\ scanning' \in BOOLEAN
  /\ isScanning' = FALSE
  /\ showDeviceModal' = FALSE
  /\ scanTimeout' = ClearedTimer(scanTimeout)
  /\ out' = <<>>
  /\ UNCHANGED <<variant, inRange, gatt, sessVars, devicesMap, orphanTimers, scanCalls, speed, mapVars,
                 linkVars, pressed, vehicleVars>>

\* The timer of scanTimeout.current fires after SCAN_DURATION_MS.
ScanTimedOut ==
  /\ scanTimeout = "pending"
  /\ scanTimeout' = "done"
  /\ scanning' = FALSE
  /\ isScanning' = FALSE
  /\ out' = <<>>
  /\ UNCHANGED <<variant, inRange, gatt, sessVars, showDeviceModal, devicesMap, orphanTimers, scanCalls,
                 speed, mapVars, linkVars, pressed, vehicleVars>>

\* A scan timer the ref no longer names fires.
OrphanTimedOut ==
  /\ orphanTimers > 0
  /\ orphanTimers' = orphanTimers - 1
  /\ scanning' = FALSE
  /\ isScanning' = FALSE
  /\ out' = <<>>
  /\ UNCHANGED <<variant, inRange, gatt, sessVars, showDeviceModal, devicesMap, scanTimeout, scanCalls,
                 speed, mapVars, linkVars, pressed, vehicleVars>>

\* Close button and onRequestClose of the device list.
CloseDeviceModal ==
  /\ showDeviceModal
  /\ showDeviceModal' = FALSE
  /\ isScanning' = FALSE
  /\ scanning' = FALSE
  /\ scanTimeout' = ClearedTimer(scanTimeout)
  /\ out' = <<>>
  /\ UNCHANGED <<variant, inRange, gatt, sessVars, devicesMap, orphanTimers, scanCalls, speed, mapVars,
                 linkVars, pressed, vehicleVars>>

\* ---- connecting and disconnecting --------------------------------------

\* A device of the list is tapped (disabled for the connected one):
\* connectToDevice(d) runs up to await d.connect().
connectToDevice(d) ==
  /\ showDeviceModal /\ d \in devicesMap /\ d # connectedDeviceId
  /\ conn[d] = "idle"
  /\ scanning' = FALSE
  /\ scanTimeout' = ClearedTimer(scanTimeout)
  /\ isScanning' = FALSE
  /\ conn' = [conn EXCEPT ![d] = "connecting"]
  /\ out' = <<>>
  /\ UNCHANGED <<variant, inRange, gatt, sessVars, showDeviceModal, devicesMap, orphanTimers, scanCalls,
                 speed, mapVars, disc, periph, pressed, vehicleVars>>

\* The catch block of connectToDevice
ConnectCatch(d) ==
  /\ isScanning' = FALSE
  /\ showDeviceModal' = FALSE
  /\ conn' = [conn EXCEPT ![d] = "idle"]
  /\ out' = <<>>
  /\ UNCHANGED <<sessVars, speed>>

\* d.connect() settles.
Connected(d) ==
  /\ conn[d] = "connecting"
  /\ \E ok \in BOOLEAN :
       IF ok
       THEN /\ periph' = periph \cup {d}
            /\ conn' = [conn EXCEPT ![d] = "discovering"]
            /\ out' = <<>>
            /\ UNCHANGED <<sessVars, speed, isScanning, showDeviceModal>>
       ELSE /\ ConnectCatch(d)
            /\ UNCHANGED periph
  /\ UNCHANGED <<variant, inRange, gatt, devicesMap, scanTimeout, orphanTimers, scanning, scanCalls,
                 mapVars, disc, pressed, vehicleVars>>

\* discoverAllServicesAndCharacteristics() settles: setDevice and
\* setConnectedDeviceId, then the call awaits the enumeration.
Discovered(d) ==
  /\ conn[d] = "discovering"
  /\ \E ok \in BOOLEAN :
       IF ok
       THEN /\ Commit(d, serviceUUID, characteristicUUID)
            /\ connectedDeviceId' = d
            /\ conn' = [conn EXCEPT ![d] = "resolving"]
            /\ UNCHANGED <<isScanning, showDeviceModal>>
       ELSE /\ ConnectCatch(d)
  /\ UNCHANGED <<variant, inRange, gatt, devicesMap, scanTimeout, orphanTimers, scanning, scanCalls,
                 mapVars, disc, periph, pressed, vehicleVars>>

\* The enumeration ends: found, nothing found, or (threw) an error swallowed
\* by the inner catch; on a peripheral the BleManager is no longer connected
\* to it ends with an error. setServiceUUID, setCharacteristicUUID, and the
\* list is closed.
ResolvedAs(d, threw) ==
  /\ conn[d] = "resolving"
  /\ d \notin periph => threw
  /\ LET found == IF threw THEN <<NULL, NULL>> ELSE Resolver(Services(d)) IN
     Commit(device, found[1], found[2])
  /\ showDeviceModal' = FALSE
  /\ conn' = [conn EXCEPT ![d] = "idle"]
  /\ UNCHANGED <<variant, inRange, gatt, connectedDeviceId, isScanning, devicesMap, scanTimeout,
                 orphanTimers, scanning, scanCalls, mapVars, disc, periph, pressed,
                 vehicleVars>>

Resolved(d) == \E threw \in BOOLEAN : ResolvedAs(d, threw)

\* Disconnect button (shown while device is set): disconnectDevice() runs up
\* to await device.cancelConnection().
disconnectDevice ==
  /\ MainScreen /\ device # NULL /\ disc = NULL
  /\ disc' = device
  /\ out' = <<>>
  /\ UNCHANGED <<variant, inRange, gatt, sessVars, scanVars, speed, mapVars, conn, periph, pressed,
                 vehicleVars>>

\* cancelConnection() settles, with or without an error: the session state
\* is cleared and the ref's timer too.
Disconnected ==
  /\ disc # NULL
  /\ \E ok \in BOOLEAN : periph' = IF ok THEN periph \ {disc} ELSE periph
  /\ Commit(NULL, NULL, NULL)
  /\ connectedDeviceId' = NULL
  /\ scanTimeout' = ClearedTimer(scanTimeout)
  /\ disc' = NULL
  /\ UNCHANGED <<variant, inRange, gatt, isScanning, showDeviceModal, devicesMap, orphanTimers, scanning,
                 scanCalls, mapVars, conn, pressed, vehicleVars>>

\* ---- commands ----------------------------------------------------------

\* A speed button (inert while device is null): handleSpeedChange(delta).
handleSpeedChange(delta) ==
  LET next == NextSpeed(speed, delta) IN
  /\ MainScreen /\ device # NULL
  /\ out' = StepCommands(speed, next, delta, commandMap, device, serviceUUID,
                         characteristicUUID)
  /\ speed' = next
  /\ UNCHANGED <<variant, inRange, gatt, sessVars, scanVars, mapVars, linkVars, pressed, vehicleVars>>

\* First App: the long press on a D-pad key starts (onStart). sent records
\* whether this call reached the characteristic write.
PressStart(key) ==
  LET o == sendCommand(device, serviceUUID, characteristicUUID, commandMap[key]) IN
  /\ variant = "gesture"
  /\ MainScreen /\ device # NULL /\ pressed = NoPress
  /\ pressed' = [key |-> key, sent |-> IsWrite(o[1])]
  /\ out' = o
  /\ UNCHANGED <<variant, inRange, gatt, sessVars, scanVars, speed, mapVars, linkVars, vehicleVars>>

\* Mutant of PressEnd: the Stop of a release is coalesced with the write of
\* the press before it.
PressEndCoalesced ==
  /\ pressed # NoPress
  /\ pressed' = NoPress
  /\ out' = IF pressed.sent THEN <<>>
            ELSE sendCommand(device, serviceUUID, characteristicUUID, commandMap["S"])
  /\ UNCHANGED <<variant, inRange, gatt, sessVars, scanVars, speed, mapVars, linkVars, vehicleVars>>

\* First App: the long press ends (onEnd), whatever the screen shows by then.
PressEnd ==
  /\ pressed # NoPress
  /\ pressed' = NoPress
  /\ out' = sendCommand(device, serviceUUID, characteristicUUID, commandMap["S"])
  /\ UNCHANGED <<variant, inRange, gatt, sessVars, scanVars, speed, mapVars, linkVars, vehicleVars>>

\* Second App: a D-pad button is pressed (onPress, disabled while device is
\* null); nothing is attached to its release.
handleDirection(key) ==
  /\ variant = "tap"
  /\ MainScreen /\ device # NULL
  /\ out' = sendCommand(device, serviceUUID, characteristicUUID, commandMap[key])
  /\ UNCHANGED <<variant, inRange, gatt, sessVars, scanVars, speed, mapVars, linkVars, pressed,
                 vehicleVars>>

\* ---- command mapping ---------------------------------------------------

Edited(map) == {k \in Keys : map[k] # DEFAULT_COMMANDS[k]}

\* Mutant of openSettings: the working copy is not re-initialised.
openSettingsKeepsEdits ==
  /\ MainScreen
  /\ showSettings' = TRUE
  /\ out' = <<>>
  /\ UNCHANGED <<variant, inRange, gatt, sessVars, scanVars, speed, commandMap, editMap, linkVars,
                 pressed, vehicleVars>>

openSettings ==
  /\ MainScreen
  /\ editMap' = commandMap
  /\ showSettings' = TRUE
  /\ out' = <<>>
  /\ UNCHANGED <<variant, inRange, gatt, sessVars, scanVars, speed, commandMap, linkVars, pressed,
                 vehicleVars>>

\* onChangeText of the command field of key
ChangeText(key, v) ==
  /\ showSettings
  /\ editMap' = [editMap EXCEPT ![key] = v]
  /\ Cardinality(Edited(editMap')) <= MaxEdited
  /\ out' = <<>>
  /\ UNCHANGED <<variant, inRange, gatt, sessVars, scanVars, speed, showSettings, commandMap, linkVars,
                 pressed, vehicleVars>>

saveAdvancedSettings ==
  /\ showSettings
  /\ commandMap' = editMap
  /\ showSettings' = FALSE
  /\ out' = <<>>
  /\ UNCHANGED <<variant, inRange, gatt, sessVars, scanVars, speed, editMap, linkVars, pressed,
                 vehicleVars>>

\* Close button and onRequestClose of the settings panel
CloseSettings ==
  /\ showSettings
  /\ showSettings' = FALSE
  /\ out' = <<>>
  /\ UNCHANGED <<variant, inRange, gatt, sessVars, scanVars, speed, commandMap, editMap, linkVars,
                 pressed, vehicleVars>>

Init == CtlInit /\ setup

\* The scan path that fills the device list: one request after the other
\* through the Connect button, no Refresh, no timer firing, no scan error.
ScanPath ==
  \/ scanForDevices
  \/ ScanChecked
  \/ ScanPermitted
  \/ ScanObserved
  \/ CloseDeviceModal

ScanRest ==
  \/ Refresh
  \/ ScanFailed
  \/ ScanTimedOut
  \/ OrphanTimedOut

ConnectPath ==
  \/ \E d \in Devices : connectToDevice(d)
  \/ \E d \in Devices : Connected(d)
  \/ \E d \in Devices : Discovered(d)
  \/ \E d \in Devices : Resolved(d)

Link ==
  \/ ConnectPath
  \/ disconnectDevice
  \/ Disconnected

\* The whole controller.
Next ==
  \/ (ScanPath \/ ScanRest \/ Link)
  \/ \E delta \in Deltas : handleSpeedChange(delta)
  \/ \E key \in DpadKeys : PressStart(key)
  \/ PressEnd
  \/ \E key \in DpadKeys : handleDirection(key)
  \/ openSettings
  \/ \E key \in Keys, v \in EditValues : ChangeText(key, v)
  \/ saveAdvancedSettings
  \/ CloseSettings

Spec == Init /\ [][Next]_vars

\* One named peripheral in range: d1, with a writable characteristic, or d2,
\* with none.
InitOne == Init /\ gatt = DefaultGatt /\ Cardinality(inRange) = 1

\* Keys pressed in SpecCommands: a direction and Stop itself.
PressKeys == {"F", "S"}

\* Sessions and commands under the default mapping: scanning, connecting,
\* disconnecting, the speed buttons and the D-pad.
CommandsNext ==
  \/ (ScanPath \/ Link)
  \/ \E delta \in Deltas : handleSpeedChange(delta)
  \/ \E key \in PressKeys : PressStart(key)
  \/ PressEnd
  \/ \E key \in PressKeys : handleDirection(key)

SpecCommands == InitOne /\ [][CommandsNext]_vars

\* Keys and text edited in SpecMapping: the two speed commands are rebound.
MappingKeys == {"+", "-"}
MappingValues == {<<"U", "P">>}

\* The speed buttons under an edited mapping, with d1 in range: scanning
\* (one scan request at a time) and connecting, the speed buttons and the
\* settings panel.
MappingNext ==
  \/ scanCalls.check + scanCalls.perm = 0 /\ scanForDevices
  \/ ScanChecked
  \/ ScanPermitted
  \/ ScanObserved
  \/ CloseDeviceModal
  \/ ConnectPath
  \/ \E delta \in Deltas : handleSpeedChange(delta)
  \/ openSettings
  \/ \E key \in MappingKeys, v \in MappingValues : ChangeText(key, v)
  \/ saveAdvancedSettings
  \/ CloseSettings

InitD1 == Init /\ gatt = DefaultGatt /\ inRange = {"d1"}

SpecMapping == InitD1 /\ [][MappingNext]_vars

VehicleNext ==
  \/ SerialArrive /\ UNCHANGED ctlVars
  \/ loop /\ UNCHANGED ctlVars

\* The vehicle alone, no controller in range.
InitVehicle == Init /\ variant = "gesture" /\ gatt = DefaultGatt /\ inRange = {}

SpecVehicle == InitVehicle /\ [][VehicleNext]_vars

\* ------------------------------------------------------------------------
\* Claims
\* ------------------------------------------------------------------------

\* Ready(transmitCapable = true): a device and a write target are held.
ReadyTrue == device # NULL /\ serviceUUID # NULL /\ characteristicUUID # NULL

Clamp(x, lo, hi) == IF x < lo THEN lo ELSE IF x > hi THEN hi ELSE x

Copies(n, e) == [i \in 1..n |-> e]

\* The buffer an evaluation pass of loop() evaluates
EvalBuffer == G_Bluetooth_value \o serial

\* An evaluation pass: loop() with a non-empty buffer
EvalPass == loop /\ Len(EvalBuffer) > 0

\* C1: the controller's speed is always an integer in [0,100] and a
\* multiple of 10.
C1_SpeedInRange == speed \in 0..100 /\ speed % 10 = 0

\* C1 witness: the speed buttons took the speed to the upper clamp in a
\* connected session.
C1_Witness == speed = 100 /\ device # NULL

\* C2: in a transmit-ready session handleSpeedChange(delta) stores
\* clamp(speed + delta, 0, 100) and writes exactly |next - speed| / 10
\* commands to the write target, each the active mapping's "+" string when
\* delta > 0 and its "-" string when delta < 0.
C2_AdjustEmitsSteps ==
  [][\A delta \in Deltas :
       (handleSpeedChange(delta) /\ ReadyTrue) =>
         LET next == Clamp(speed + delta, 0, 100)
             cmd == IF delta > 0 THEN commandMap["+"] ELSE commandMap["-"]
         IN /\ speed' = next
            /\ out' = Copies(Abs(next - speed) \div 10,
                             Write(device, serviceUUID, characteristicUUID, cmd))]_vars

\* C2 witness: from 50, +20 under a remapped "+" wrote the new string twice
\* and stored 70.
C2_Witness ==
  /\ speed = 70
  /\ commandMap["+"] = <<"U", "P">>
  /\ out = Copies(2, Write("d1", "s1", "c2", <<"U", "P">>))

\* C3 (as claimed): every step that enters Ready(true) writes exactly one
\* "/" to the new write target and sets the speed to 50.
C3_ResetOnReady ==
  [][(~ReadyTrue /\ ReadyTrue') =>
       /\ out' = <<Write(device', serviceUUID', characteristicUUID', <<"/">>)>>
       /\ speed' = 50]_vars

\* A step that calls sendCommand outside the connect effect; such a step
\* leaves scanVars, linkVars and mapVars unchanged.
SendStep ==
  \/ \E delta \in Deltas : handleSpeedChange(delta)
  \/ \E key \in DpadKeys : PressStart(key)
  \/ PressEnd
  \/ \E key \in DpadKeys : handleDirection(key)

\* The send handlers in sessions of every kind, one scan request at a time
SendNext ==
  \/ scanCalls.check + scanCalls.perm = 0 /\ scanForDevices
  \/ ScanChecked
  \/ ScanPermitted
  \/ ScanObserved
  \/ CloseDeviceModal
  \/ Link
  \/ SendStep

SpecSend == InitOne /\ [][SendNext]_vars

\* C4: a send while the session is not Ready(true) writes nothing to the
\* transport and leaves the device reference, the write target, the
\* scanning flag and the discovered set as they were.
C4_SendNotReadyDropped ==
  [][(~ReadyTrue /\ UNCHANGED <<scanVars, linkVars, mapVars>> /\ SendStep) =>
       /\ \A i \in 1..Len(out') : ~IsWrite(out'[i])
       /\ UNCHANGED <<device, connectedDeviceId, serviceUUID, characteristicUUID,
                      isScanning, devicesMap>>]_vars

\* C4 witness: connected to d2, whose enumeration ended without a writable
\* characteristic; the pressed key was answered by the alert, not a write.
C4_Witness ==
  /\ device = "d2" /\ conn["d2"] = "idle"
  /\ serviceUUID = NULL /\ characteristicUUID = NULL
  /\ out = <<NotConnected(<<"F">>)>>

\* C5: an evaluation pass whose buffer starts with FR, FL, BR or BL decodes
\* that diagonal command, never the single-character command of its first
\* letter.
C5_DiagonalPriority ==
  [][\A p \in {<<"F", "R">>, <<"F", "L">>, <<"B", "R">>, <<"B", "L">>} :
       (EvalPass /\ Len(EvalBuffer) >= 2 /\ SubSeq(EvalBuffer, 1, 2) = p) =>
         LET name == CASE p = <<"F", "R">> -> "FR" [] p = <<"F", "L">> -> "FL"
                       [] p = <<"B", "R">> -> "BR" [] p = <<"B", "L">> -> "BL"
         IN /\ decoded' = name
            /\ lastMovementCommand' = name
            /\ pins' = executeMovement(name, BLE_Change_SPEED, pins)]_vars

\* C5 witness: a pass decoded ForwardRight at a speed where full and half
\* duty differ.
C5_Witness ==
  /\ decoded = "FR" /\ lastMovementCommand = "FR"
  /\ pins.a5 = FullDuty(BLE_Change_SPEED) /\ pins.a6 = HalfDuty(BLE_Change_SPEED)
  /\ pins.a5 # pins.a6

\* C6: an evaluation pass whose buffer starts with a character outside
\* F, B, L, R, S, +, -, / decodes Invalid and leaves the last movement, the
\* speed and the four pins as they were.
C6_InvalidChangesNothing ==
  [][(EvalPass /\ EvalBuffer[1] \notin {"F", "B", "L", "R", "S", "+", "-", "/"}) =>
       /\ decoded' = "Invalid"
       /\ UNCHANGED <<lastMovementCommand, BLE_Change_SPEED, pins>>]_vars

\* C6 witness: an Invalid pass while the vehicle drives forward.
C6_Witness ==
  /\ decoded = "Invalid" /\ lastMovementCommand = "F"
  /\ pins = executeMovement("F", BLE_Change_SPEED, pins) /\ pins.a5 > 0

\* C7: the vehicle's speed starts at 50, stays in [0,100] and a multiple of
\* 10; "+" at 100 and "-" at 0 leave it unchanged and still re-issue the
\* last movement at that speed.
C7_VehicleSpeed ==
  /\ BLE_Change_SPEED = 50
  /\ [](BLE_Change_SPEED \in 0..100 /\ BLE_Change_SPEED % 10 = 0)
  /\ [][(EvalPass /\ (\/ EvalBuffer[1] = "+" /\ BLE_Change_SPEED = 100
                      \/ EvalBuffer[1] = "-" /\ BLE_Change_SPEED = 0)) =>
          /\ UNCHANGED <<BLE_Change_SPEED, lastMovementCommand>>
          /\ pins' = executeMovement(lastMovementCommand, BLE_Change_SPEED, pins)]_vars

\* C7 witness: SpeedUp decoded with the speed at 100 while driving forward.
C7_Witness ==
  /\ decoded = "+" /\ BLE_Change_SPEED = 100
  /\ lastMovementCommand = "F" /\ pins.a5 = 225

\* C8: a pass that decodes +, - or / keeps the last movement and sets the
\* pins to that movement's pattern at the new speed; / makes the speed 50.
C8_SpeedOnlyReissues ==
  [][(EvalPass /\ EvalBuffer[1] \in {"+", "-", "/"}) =>
       /\ lastMovementCommand' = lastMovementCommand
       /\ pins' = executeMovement(lastMovementCommand, BLE_Change_SPEED', pins)
       /\ BLE_Change_SPEED' = CASE EvalBuffer[1] = "+" -> Clamp(BLE_Change_SPEED + 10, 0, 100)
                                [] EvalBuffer[1] = "-" -> Clamp(BLE_Change_SPEED - 10, 0, 100)
                                [] EvalBuffer[1] = "/" -> 50]_vars

\* C8 witness: SpeedReset decoded while turning left; the pins carry Left at
\* speed 50.
C8_Witness ==
  /\ decoded = "/" /\ lastMovementCommand = "L" /\ BLE_Change_SPEED = 50
  /\ pins = [d2 |-> "LOW", a5 |-> 56, d4 |-> "LOW", a6 |-> 56]

\* The movement command a buffer holds, "none" for a speed-only or invalid one
MovementOf(buf) ==
  IF Len(buf) >= 2 /\ buf[1] \in {"F", "B"} /\ buf[2] \in {"R", "L"}
  THEN (CASE buf[1] = "F" /\ buf[2] = "R" -> "FR" [] buf[1] = "F" /\ buf[2] = "L" -> "FL"
          [] buf[1] = "B" /\ buf[2] = "R" -> "BR" [] buf[1] = "B" /\ buf[2] = "L" -> "BL")
  ELSE IF buf[1] \in {"F", "B", "L", "R", "S"} THEN buf[1]
  ELSE "none"

\* C9: the last movement is Stop initially; a pass that decodes a movement
\* command makes it that command, any other pass leaves it; ForwardRight
\* puts full duty on pin 5 and half duty on pin 6, Stop puts 0 on both.
C9_LastMovementTracks ==
  /\ lastMovementCommand = "S"
  /\ [][EvalPass =>
          LET m == MovementOf(EvalBuffer) IN
          /\ lastMovementCommand' = IF m # "none" THEN m ELSE lastMovementCommand
          /\ m = "FR" => pins' = [d2 |-> "HIGH", a5 |-> FullDuty(BLE_Change_SPEED),
                                  d4 |-> "LOW", a6 |-> HalfDuty(BLE_Change_SPEED)]
          /\ m = "S" => pins'.a5 = 0 /\ pins'.a6 = 0]_vars

\* C9 witness: ForwardRight was decoded and a later SpeedDown pass kept it:
\* the pins carry the (full, half) pattern at speed 40.
C9_Witness ==
  /\ decoded = "-" /\ lastMovementCommand = "FR" /\ BLE_Change_SPEED = 40
  /\ pins = [d2 |-> "HIGH", a5 |-> 90, d4 |-> "LOW", a6 |-> 45]

\* C10 (as claimed): a D-pad press that wrote its key's string ends, at its
\* release, with a write of the Stop string. First App: the release is
\* onEnd. Second App: onPress runs when the button is released.
C10_StopOnRelease ==
  [][/\ (pressed.sent /\ PressEnd) =>
          out' = <<Write(device, serviceUUID, characteristicUUID, commandMap["S"])>>
     /\ \A key \in DpadKeys :
          (handleDirection(key) /\ ReadyTrue) =>
            out'[Len(out')] = Write(device, serviceUUID, characteristicUUID, commandMap["S"])]_vars

\* ------------------------------------------------------------------------
\* Controller and vehicle together
\* ------------------------------------------------------------------------

\* The writes of the last handler the BLE stack has not transmitted yet
Pending == SelectSeq(out, IsWrite)

\* The oldest pending write reaches the vehicle's serial port. The vehicle's
\* Bluetooth module is d1; a command is delivered once the sketch has
\* consumed the one before, so each is evaluated in a pass of its own.
Transmit ==
  /\ Pending # <<>>
  /\ serial = <<>> /\ G_Bluetooth_value = <<>>
  /\ serial' = Head(Pending).cmd
  /\ out' = Tail(Pending)
  /\ UNCHANGED <<variant, inRange, gatt, sessVars, scanVars, speed, mapVars, linkVars, pressed,
                 G_Bluetooth_value, BLE_Change_SPEED, lastMovementCommand, pins, decoded>>

\* The sketch's loop() with bytes to read
Evaluate == serial # <<>> /\ loop /\ UNCHANGED ctlVars

\* Speed buttons of the joint specification
LockstepDeltas == {-10, 10}

\* Handlers run once the writes of the handler before are transmitted; the
\* Connect button is pressed once the scan request before it has settled.
LockstepNext ==
  \/ Pending = <<>> /\ scanCalls.check + scanCalls.perm = 0 /\ scanForDevices
  \/ Pending = <<>> /\ ScanChecked
  \/ Pending = <<>> /\ ScanPermitted
  \/ Pending = <<>> /\ ScanObserved
  \/ Pending = <<>> /\ CloseDeviceModal
  \/ \E d \in Devices : Pending = <<>> /\ connectToDevice(d)
  \/ \E d \in Devices : Pending = <<>> /\ Connected(d)
  \/ \E d \in Devices : Pending = <<>> /\ Discovered(d)
  \/ \E d \in Devices : Pending = <<>> /\ Resolved(d)
  \/ Pending = <<>> /\ disconnectDevice
  \/ Pending = <<>> /\ Disconnected
  \/ \E delta \in LockstepDeltas : Pending = <<>> /\ handleSpeedChange(delta)
  \/ Transmit
  \/ Evaluate

SpecLockstep == InitD1 /\ [][LockstepNext]_vars

\* No command is on its way: none pending, none unread, none buffered.
NothingInFlight == Pending = <<>> /\ serial = <<>> /\ G_Bluetooth_value = <<>>

\* C11 (as claimed): whenever the session is Ready(true) and no command is
\* in flight, the controller's speed equals the vehicle's BLE_Change_SPEED.
C11_SpeedLockstep ==
  (ReadyTrue /\ NothingInFlight) => speed = BLE_Change_SPEED

\* Every control that sends: the D-pad of either App, the speed buttons and
\* the connect effect, with the sketch behind d1.
WireNext ==
  \/ Pending = <<>> /\ scanCalls.check + scanCalls.perm = 0 /\ scanForDevices
  \/ Pending = <<>> /\ ScanChecked
  \/ Pending = <<>> /\ ScanPermitted
  \/ Pending = <<>> /\ ScanObserved
  \/ \E d \in Devices : Pending = <<>> /\ connectToDevice(d)
  \/ \E d \in Devices : Pending = <<>> /\ Connected(d)
  \/ \E d \in Devices : Pending = <<>> /\ Discovered(d)
  \/ \E d \in Devices : Pending = <<>> /\ Resolved(d)
  \/ \E delta \in LockstepDeltas : Pending = <<>> /\ handleSpeedChange(delta)
  \/ \E key \in DpadKeys : Pending = <<>> /\ PressStart(key)
  \/ Pending = <<>> /\ PressEnd
  \/ \E key \in DpadKeys : Pending = <<>> /\ handleDirection(key)
  \/ Transmit
  \/ Evaluate

SpecWire == InitD1 /\ [][WireNext]_vars

\* What the sketch decodes from the i-th write of a handler
DecodedWrite(o, i) == Decode(o[i].cmd)

\* C12: under the default mapping every command a control transmits is
\* decoded by the sketch as the action of that control: a D-pad key as its
\* movement, the release as Stop, the speed buttons as '+' or '-', the
\* connect effect as '/'; and a command evaluated alone in a pass is never
\* decoded as Invalid or as a diagonal.
C12_EncoderDecoderAgree ==
  [][/\ \A key \in DpadKeys :
          ((PressStart(key) \/ handleDirection(key)) /\ ReadyTrue) =>
            (Len(out') = 1 /\ DecodedWrite(out', 1) = key)
     /\ (PressEnd /\ ReadyTrue) => (Len(out') = 1 /\ DecodedWrite(out', 1) = "S")
     /\ \A delta \in LockstepDeltas :
          (handleSpeedChange(delta) /\ ReadyTrue) =>
            \A i \in 1..Len(out') : DecodedWrite(out', i) = (IF delta > 0 THEN "+" ELSE "-")
     /\ (~ReadyTrue /\ ReadyTrue' /\ out' # <<>>) =>
          (Len(out') = 1 /\ DecodedWrite(out', 1) = "/")
     /\ Evaluate => decoded' \in (Keys \cup {"/"})]_vars

\* C12 witness: the Right key is held in the first App and the sketch has
\* evaluated its command as Right.
C12_Witness ==
  /\ pressed = [key |-> "R", sent |-> TRUE]
  /\ NothingInFlight
  /\ decoded = "R" /\ lastMovementCommand = "R"

\* ------------------------------------------------------------------------
\* Scanning and connecting with both peripherals in range
\* ------------------------------------------------------------------------

InitBoth == Init /\ gatt = DefaultGatt /\ inRange = Devices

LinkNext == ScanPath \/ ScanRest \/ Link

SpecLink == InitBoth /\ [][LinkNext]_vars

\* The connectToDevice calls that have not returned
Attempts == {d \in Devices : conn[d] # "idle"}

\* C13 (as claimed): at most one connectToDevice call is in progress and at
\* most one peripheral is connected at the BleManager.
C13_SingleConnection == Cardinality(Attempts) <= 1 /\ Cardinality(periph) <= 1

\* The scan timers that have been set and have neither fired nor been cleared
PendingTimers == (IF scanTimeout = "pending" THEN 1 ELSE 0) + orphanTimers

\* C14 (as claimed): at most one scan-timeout timer is pending, and every
\* startDeviceScan finds the previous scan stopped and its timer cleared.
C14_SingleScan ==
  /\ [](PendingTimers <= 1)
  /\ [][ScanPermittedAs("started") => (~scanning /\ PendingTimers = 0)]_vars

\* ------------------------------------------------------------------------
\* The transport drops a connection
\* ------------------------------------------------------------------------

\* The BleManager loses the established connection to d (out of range,
\* powered off); a loss during connectToDevice is the rejection of one of its
\* awaits. The App registers no disconnection listener: none of its state
\* changes.
LinkLost(d) ==
  /\ d \in periph /\ conn[d] = "idle"
  /\ periph' = periph \ {d}
  /\ out' = <<>>
  /\ UNCHANGED <<variant, inRange, gatt, sessVars, scanVars, speed, mapVars, conn, disc, pressed,
                 vehicleVars>>

DropNext ==
  \/ CommandsNext
  \/ \E d \in Devices : LinkLost(d)

SpecDrop == InitOne /\ [][DropNext]_vars

\* C15 (as claimed): once the transport has dropped the connection the
\* session holds no device and no write target any more, so no handler
\* attempts a write to a peripheral the BleManager is not connected to.
C15_DropClearsSession ==
  [][\A i \in 1..Len(out') : IsWrite(out'[i]) => out'[i].dev \in periph]_vars

\* The Connect button is enabled, or is bound to become so: it is disabled
\* while isScanning, which the Close button of the device list, a pending
\* scan timer or a scanForDevices call awaiting its permissions resets.
ScanRequestable ==
  \/ ~isScanning
  \/ showDeviceModal
  \/ PendingTimers > 0
  \/ scanCalls.perm > 0

\* C16 (as claimed): when disconnectDevice completes, with or without an
\* error of cancelConnection, the device reference and the write target are
\* cleared and a new scan can be requested.
C16_DisconnectClears ==
  [][Disconnected =>
       /\ device' = NULL /\ connectedDeviceId' = NULL
       /\ serviceUUID' = NULL /\ characteristicUUID' = NULL
       /\ ScanRequestable']_vars

\* ------------------------------------------------------------------------
\* The settings panel
\* ------------------------------------------------------------------------

EditNext ==
  \/ openSettings
  \/ \E key \in Keys, v \in EditValues : ChangeText(key, v)
  \/ saveAdvancedSettings
  \/ CloseSettings

SpecEdit == InitD1 /\ [][EditNext]_vars

\* C17 (as claimed): every key of the active mapping resolves to a string
\* of 1 to maxLength characters.
C17_ActiveMappingValid ==
  \A k \in Keys : Len(commandMap[k]) >= 1 /\ Len(commandMap[k]) <= maxLength

\* C18 (as claimed): a text of length 0 or of more than maxLength characters
\* is rejected, the working copy keeping its entry for that key.
C18_SetSymbolRejects ==
  [][\A key \in Keys, v \in EditValues :
       (ChangeText(key, v) /\ (Len(v) = 0 \/ Len(v) > maxLength)) =>
         editMap'[key] = editMap[key]]_vars

\* C19: openSettings copies the active mapping into the working copy,
\* onChangeText changes the edited entry of the working copy only, Save makes
\* the active mapping equal to the working copy, and Close leaves the active
\* mapping alone; as every opening starts from the active mapping, an edit
\* abandoned by Close cannot reach it through a later Save.
C19_EditsIsolated ==
  [][/\ openSettings => (editMap' = commandMap /\ commandMap' = commandMap)
     /\ \A key \in Keys, v \in EditValues :
          ChangeText(key, v) =>
            /\ commandMap' = commandMap
            /\ \A k \in Keys \ {key} : editMap'[k] = editMap[k]
     /\ saveAdvancedSettings => commandMap' = editMap
     /\ CloseSettings => commandMap' = commandMap]_vars

\* C19 witness: the panel was closed on an edit of "+": the working copy
\* holds it, the active mapping does not.
C19_Witness ==
  /\ ~showSettings
  /\ editMap["+"] = <<"U", "P">>
  /\ commandMap = DEFAULT_COMMANDS

\* C20: every id of the discovered-device set belongs to a peripheral that
\* advertises a name.
C20_OnlyNamedDevices == \A id \in devicesMap : id \in Devices

\* C20 witness: a scan is in flight, with a1 and a2 advertising without a
\* name beside d1 and d2, and the list holds both named peripherals.
C20_Witness == scanning /\ devicesMap = {"d1", "d2"}

\* C21: a scanForDevices call that finds Bluetooth off, location off or the
\* location permission missing alerts and returns: no scan is started, and
\* the session, the device list, the scanning flag, the list's visibility
\* and the scan timers are as before.
C21_IncapableScanNoChange ==
  [][ScanCheckedAs(FALSE) =>
       /\ out' = <<CapabilityAlert>>
       /\ UNCHANGED <<sessVars, devicesMap, isScanning, showDeviceModal, scanning,
                      scanTimeout, orphanTimers>>]_vars

\* C21 witness: a request was refused for a missing capability while an
\* earlier request's scan runs with d1 listed.
C21_Witness ==
  /\ out = <<CapabilityAlert>>
  /\ scanning /\ isScanning /\ scanTimeout = "pending"
  /\ devicesMap = {"d1"}

\* ------------------------------------------------------------------------
\* Writes that fail
\* ------------------------------------------------------------------------

\* Mutant of TransmitFailed: a failed write drops the write target.
TransmitFailedDropsTarget ==
  /\ Pending # <<>>
  /\ out' = Tail(Pending)
  /\ serviceUUID' = NULL /\ characteristicUUID' = NULL
  /\ UNCHANGED <<variant, inRange, gatt, device, connectedDeviceId, scanVars, speed, mapVars, linkVars,
                 pressed, vehicleVars>>

\* The oldest pending write is rejected by the transport: the catch of
\* sendCommand logs the error, and the command is gone.
TransmitFailed ==
  /\ Pending # <<>>
  /\ out' = Tail(Pending)
  /\ UNCHANGED <<variant, inRange, gatt, sessVars, scanVars, speed, mapVars, linkVars, pressed,
                 vehicleVars>>

WriteFailNext ==
  \/ WireNext
  \/ TransmitFailed

SpecWriteFail == InitD1 /\ [][WriteFailNext]_vars

\* C22: a rejected write changes nothing of the session: device reference
\* and write target are kept, a Ready(true) session stays Ready(true), the
\* failed command is not queued again and nothing of it reaches the
\* vehicle, and the writes requested after it stay pending as they were.
C22_WriteFailureKeepsSession ==
  [][TransmitFailed =>
       /\ UNCHANGED <<sessVars, speed, isScanning, devicesMap, serial>>
       /\ ReadyTrue => ReadyTrue'
       /\ Pending' = Tail(Pending)]_vars

\* C22 witness: in the first App a speed-up write was lost (the controller
\* is at 60, the vehicle still at 50), the session is still Ready(true), and
\* a later press was written and evaluated as usual.
C22_Witness ==
  /\ variant = "gesture" /\ ReadyTrue /\ NothingInFlight
  /\ speed = 60 /\ BLE_Change_SPEED = 50
  /\ pressed = [key |-> "F", sent |-> TRUE] /\ lastMovementCommand = "F"

\* ------------------------------------------------------------------------
\* The resolver on any peripheral
\* ------------------------------------------------------------------------

InitResolver == CtlInit /\ setup /\ inRange = {"d1"} /\ gatt \in ResolverGatts

ResolverNext ==
  \/ scanCalls.check + scanCalls.perm = 0 /\ scanForDevices
  \/ ScanChecked
  \/ ScanPermitted
  \/ ScanObserved
  \/ ConnectPath

SpecResolver == InitResolver /\ [][ResolverNext]_vars

\* The positions <<i, j>> of the writable characteristics of a table
WritableAt(table) ==
  UNION {{<<i, j>> : j \in {x \in 1..Len(table[i].chars) :
                              table[i].chars[x].wr \/ table[i].chars[x].wnr}} :
         i \in 1..Len(table)}

\* The first writable position in enumeration order, as uuids; none is
\* <<NULL, NULL>>
FirstPair(table) ==
  IF WritableAt(table) = {} THEN <<NULL, NULL>>
  ELSE LET h == CHOOSE h \in WritableAt(table) :
                  \A g \in WritableAt(table) :
                    h[1] < g[1] \/ (h[1] = g[1] /\ h[2] <= g[2])
       IN <<table[h[1]].uuid, table[h[1]].chars[h[2]].uuid>>

\* C23: an enumeration that ends without an error stores as write target
\* the first service and characteristic, in enumeration order, whose
\* characteristic is writable with or without response, and stores none
\* (the session staying connected) when no characteristic is writable.
C23_ResolverFirstWritable ==
  [][\A d \in Devices :
       ResolvedAs(d, FALSE) =>
         /\ <<serviceUUID', characteristicUUID'>> = FirstPair(gatt[d])
         /\ device' = d]_vars

\* C23 witness: the first service has no writable characteristic, the
\* second has a read-only one before one writable without response; the
\* latter is the write target.
C23_Witness ==
  /\ gatt["d1"] = Named(<< <<[wr |-> FALSE, wnr |-> FALSE]>>,
                          <<[wr |-> FALSE, wnr |-> FALSE], [wr |-> FALSE, wnr |-> TRUE]>> >>)
  /\ device = "d1" /\ serviceUUID = "sb" /\ characteristicUUID = "cb2"

\* ------------------------------------------------------------------------
\* From connected to transmit-ready
\* ------------------------------------------------------------------------

\* Scanning and connecting, with no Disconnect pressed
AttachNext == ScanPath \/ ScanRest \/ ConnectPath

SpecAttach == InitBoth /\ [][AttachNext]_vars

\* C24 (as claimed): when discoverAllServicesAndCharacteristics settles the
\* session holds the peripheral without being transmit-ready; it becomes
\* transmit-ready only at the end of an enumeration; an enumeration that ends
\* without an error leaves the session on its peripheral with the resolver's
\* pair as write target, transmit-ready exactly when there is a pair.
C24_ReadyAfterResolver ==
  [][/\ \A d \in Devices :
          /\ (conn[d] = "discovering" /\ conn'[d] = "resolving") =>
               (device' = d /\ ~ReadyTrue')
          /\ ResolvedAs(d, FALSE) =>
               /\ device' = d
               /\ <<serviceUUID', characteristicUUID'>> = Resolver(Services(d))
     /\ (~ReadyTrue /\ ReadyTrue') =>
          \E d \in Devices : conn[d] = "resolving" /\ conn'[d] = "idle"]_vars

\* ------------------------------------------------------------------------
\* Connect attempts that fail
\* ------------------------------------------------------------------------

\* The outer catch of connectToDevice ran for d: connect() or
\* discoverAllServicesAndCharacteristics() rejected.
ConnectFailed(d) == conn[d] \in {"connecting", "discovering"} /\ conn'[d] = "idle"

\* C25 (as claimed): a connect attempt that fails leaves the session with no
\* device, no write target, not scanning, and a scan requestable.
C25_ConnectFailureIdle ==
  [][\A d \in Devices :
       ConnectFailed(d) =>
         /\ device' = NULL /\ connectedDeviceId' = NULL
         /\ serviceUUID' = NULL /\ characteristicUUID' = NULL
         /\ ~isScanning'
         /\ ScanRequestable']_vars

\* ------------------------------------------------------------------------
\* The end of a scan
\* ------------------------------------------------------------------------

\* Scanning, connecting and disconnecting with no error reported by the
\* scan callback
TimedNext ==
  \/ ScanPath
  \/ Refresh
  \/ ScanTimedOut
  \/ OrphanTimedOut
  \/ Link

\* A timer that is pending fires, and a call that awaits a promise resumes;
\* nothing obliges the user to touch a control.
TimedFairness ==
  /\ WF_vars(ScanTimedOut)
  /\ WF_vars(OrphanTimedOut)
  /\ WF_vars(ScanChecked)
  /\ WF_vars(ScanPermitted)
  /\ WF_vars(Disconnected)
  /\ \A d \in Devices : WF_vars(Connected(d)) /\ WF_vars(Discovered(d)) /\ WF_vars(Resolved(d))

SpecTimed == InitD1 /\ [][TimedNext]_vars /\ TimedFairness

\* C26 (as claimed): a transport scan that runs is eventually stopped, and a
\* session that shows Scanning eventually does not.
C26_ScanEnds == (scanning ~> ~scanning) /\ (isScanning ~> ~isScanning)

\* ------------------------------------------------------------------------
\* The device list and the scan it belongs to
\* ------------------------------------------------------------------------

\* C27 (as claimed): startDeviceScan is called with the previous scan stopped
\* and the device list empty, and the list changes only by being emptied or
\* by an observation of the running scan.
C27_ListOfCurrentScan ==
  /\ [][ScanPermittedAs("started") => (~scanning /\ devicesMap = {})]_vars
  /\ [][devicesMap' # devicesMap =>
          (devicesMap' = {} \/ (scanning /\ devicesMap \subseteq devicesMap'))]_vars

\* ------------------------------------------------------------------------
\* The order of the characteristic writes
\* ------------------------------------------------------------------------

\* The commands a send handler calls sendCommand with, in call order
Requested(delta, key) ==
  IF delta # 0
  THEN Copies(Abs(NextSpeed(speed, delta) - speed) \div 10,
              IF delta > 0 THEN commandMap["+"] ELSE commandMap["-"])
  ELSE <<commandMap[key]>>

\* One characteristic write per requested command, in the same order
WritesOf(cmds) ==
  [i \in 1..Len(cmds) |-> Write(device, serviceUUID, characteristicUUID, cmds[i])]

\* C28: in a transmit-ready session the characteristic writes a send handler
\* has started when it returns are exactly its sendCommand calls, one write
\* per call and in call order: nothing is held back, merged or reordered.
C28_WritesInRequestOrder ==
  [][ReadyTrue =>
       /\ \A delta \in Deltas :
            handleSpeedChange(delta) => out' = WritesOf(Requested(delta, "+"))
       /\ \A key \in DpadKeys :
            (PressStart(key) \/ handleDirection(key)) => out' = WritesOf(Requested(0, key))
       /\ PressEnd => out' = WritesOf(Requested(0, "S"))]_vars

\* C28 witness: in the first App a key was pressed and released in a
\* transmit-ready session; the write the release started is the Stop string.
C28_Witness ==
  /\ variant = "gesture" /\ ReadyTrue
  /\ pressed = NoPress
  /\ out = <<Write("d1", "s1", "c2", <<"S">>)>>

\* ------------------------------------------------------------------------
\* The actuator mapping
\* ------------------------------------------------------------------------

\* The sense of each side, read from its direction pin: pin 2 is the left
\* side and pin 4 the right side, and Forward's levels are "fwd".
LeftSense(p) == IF p.d2 = "HIGH" THEN "fwd" ELSE "rev"
RightSense(p) == IF p.d4 = "LOW" THEN "fwd" ELSE "rev"

\* The speeds the vehicle can hold
Speeds == {10 * i : i \in 0..10}

\* C29: a pass that decodes a movement command at any speed sets the pins
\* to: Forward and Backward, both sides at the full level, both forward or
\* both reversed; Left and Right, both sides at the half level in opposite
\* senses, Right the reverse of Left; FR and BR, left full and right half;
\* FL and BL, left half and right full; FR and FL in Forward's senses, BR and
\* BL in Backward's; Stop, both duties zero.
C29_ActuatorMapping ==
  [][(EvalPass /\ MovementOf(EvalBuffer) # "none") =>
       LET m == MovementOf(EvalBuffer)
           full == FullDuty(BLE_Change_SPEED)
           half == HalfDuty(BLE_Change_SPEED)
           senses == <<LeftSense(pins'), RightSense(pins')>>
           duties == <<pins'.a5, pins'.a6>>
       IN /\ BLE_Change_SPEED \in Speeds
          /\ m = "F" => senses = <<"fwd", "fwd">> /\ duties = <<full, full>>
          /\ m = "B" => senses = <<"rev", "rev">> /\ duties = <<full, full>>
          /\ m = "L" => senses = <<"rev", "fwd">> /\ duties = <<half, half>>
          /\ m = "R" => senses = <<"fwd", "rev">> /\ duties = <<half, half>>
          /\ m = "FR" => senses = <<"fwd", "fwd">> /\ duties = <<full, half>>
          /\ m = "FL" => senses = <<"fwd", "fwd">> /\ duties = <<half, full>>
          /\ m = "BR" => senses = <<"rev", "rev">> /\ duties = <<full, half>>
          /\ m = "BL" => senses = <<"rev", "rev">> /\ duties = <<half, full>>
          /\ m = "S" => duties = <<0, 0>>]_vars

\* C29 witness: BackwardLeft decoded at speed 100: both sides reversed, the
\* left at half (112) and the right at full (225).
C29_Witness ==
  /\ decoded = "BL" /\ BLE_Change_SPEED = 100
  /\ pins = [d2 |-> "LOW", a5 |-> 112, d4 |-> "HIGH", a6 |-> 225]

\* ------------------------------------------------------------------------
\* The single-character table of the decoder
\* ------------------------------------------------------------------------

\* No startsWith of the diagonal chain matches the buffer
NoDiagonalPrefix(buf) ==
  ~(Len(buf) >= 2 /\ buf[1] \in {"F", "B"} /\ buf[2] \in {"R", "L"})

\* The switch on charAt(0), as a table
FirstCharTable(c) ==
  CASE c \in {"F", "B", "L", "R"} -> c
    [] c = "S" -> "S"
    [] c = "+" -> "+"
    [] c = "-" -> "-"
    [] c = "/" -> "/"
    [] OTHER -> "Invalid"

\* C30: a pass whose buffer matches no diagonal prefix decodes its first
\* character by the table F, B, L, R, S, +, -, / (anything else Invalid);
\* the speed, the last movement and the pins after the pass are those the
\* first character alone determines, and the buffer is emptied.
C30_FirstCharOnly ==
  [][(EvalPass /\ NoDiagonalPrefix(EvalBuffer)) =>
       LET t == FirstCharTable(EvalBuffer[1])
           spd == CASE t = "+" -> Clamp(BLE_Change_SPEED + 10, 0, 100)
                    [] t = "-" -> Clamp(BLE_Change_SPEED - 10, 0, 100)
                    [] t = "/" -> 50
                    [] OTHER -> BLE_Change_SPEED
           isMove == t \in {"F", "B", "L", "R", "S"}
       IN /\ decoded' = t
          /\ BLE_Change_SPEED' = spd
          /\ lastMovementCommand' = IF isMove THEN t ELSE lastMovementCommand
          /\ pins' = IF isMove THEN executeMovement(t, spd, pins)
                     ELSE IF t = "Invalid" THEN pins
                     ELSE executeMovement(lastMovementCommand, spd, pins)
          /\ G_Bluetooth_value' = <<>> /\ serial' = <<>>]_vars

\* C30 witness: the pass before decoded Left at speed 50, and the buffer of
\* the next pass holds S followed by +: no diagonal prefix, a character
\* after the first.
C30_Witness ==
  /\ decoded = "L" /\ lastMovementCommand = "L" /\ BLE_Change_SPEED = 50
  /\ pins = [d2 |-> "LOW", a5 |-> 56, d4 |-> "LOW", a6 |-> 56]
  /\ EvalBuffer = <<"S", "+">>

\* ------------------------------------------------------------------------
\* The buffer between passes
\* ------------------------------------------------------------------------

\* C31: every pass of loop() that evaluates a buffer leaves the buffer and
\* the serial input empty, whatever branch it took; the buffer a pass
\* evaluates is therefore made of the bytes that arrived since the pass
\* before.
C31_BufferCleared ==
  /\ [](G_Bluetooth_value = <<>>)
  /\ [][EvalPass => (G_Bluetooth_value' = <<>> /\ serial' = <<>> /\ EvalBuffer = serial)]_vars

\* C31 witness: a pass decoded Invalid from two bytes and both buffers are
\* empty, with the last movement still Forward.
C31_Witness ==
  /\ decoded = "Invalid" /\ lastMovementCommand = "F"
  /\ G_Bluetooth_value = <<>> /\ serial = <<>>

\* ------------------------------------------------------------------------
\* Commands that arrive in one buffer
\* ------------------------------------------------------------------------

\* The strings the controller transmits under DEFAULT_COMMANDS, the '/' of
\* the connect effect included
ControllerCommands == {DEFAULT_COMMANDS[k] : k \in Keys} \cup {<<"/">>}

\* The buffer is made of controller commands only, more than one of them
MergedCommands(buf) ==
  /\ Len(buf) >= 2
  /\ \A i \in 1..Len(buf) : <<buf[i]>> \in ControllerCommands

\* C32 (as claimed): controller commands can arrive in one buffer, and then
\* there are two controller commands whose bytes, read into one buffer, make
\* the pass decode Invalid.
C32_MergedUnrecognized ==
  MergedCommands(EvalBuffer) =>
    \E a \in ControllerCommands, b \in ControllerCommands : Decode(a \o b) = "Invalid"

\* C32 (amended): a pass over a buffer of several controller commands never
\* decodes Invalid: it decodes the diagonal the first two letters spell, or
\* else the first command alone, with the speed, last movement and pins of
\* that one decoded command; the other commands of the buffer are dropped.
C32_MergedDecodedAsOne ==
  [][(EvalPass /\ MergedCommands(EvalBuffer)) =>
       /\ decoded' # "Invalid"
       /\ decoded' = (IF NoDiagonalPrefix(EvalBuffer) THEN EvalBuffer[1]
                      ELSE MovementOf(EvalBuffer))
       /\ BLE_Change_SPEED' = SpeedAfter(decoded', BLE_Change_SPEED)
       /\ lastMovementCommand' = LastAfter(decoded', lastMovementCommand)
       /\ pins' = PinsAfter(decoded', lastMovementCommand, BLE_Change_SPEED', pins)
       /\ G_Bluetooth_value' = <<>> /\ serial' = <<>>]_vars

\* C32 witness: the commands B and R arrived in one buffer and the pass
\* decoded BackwardRight, which the controller never sends, at speed 50.
C32_Witness ==
  /\ decoded = "BR" /\ lastMovementCommand = "BR" /\ BLE_Change_SPEED = 50
  /\ pins = [d2 |-> "LOW", a5 |-> 112, d4 |-> "HIGH", a6 |-> 56]

\* ------------------------------------------------------------------------
\* Drive magnitudes
\* ------------------------------------------------------------------------

\* The duties a movement puts on the left (pin 5) and right (pin 6) side:
\* "full", "half" or "zero"
Levels(m) ==
  CASE m \in {"F", "B"} -> <<"full", "full">>
    [] m \in {"L", "R"} -> <<"half", "half">>
    [] m \in {"FR", "BR"} -> <<"full", "half">>
    [] m \in {"FL", "BL"} -> <<"half", "full">>
    [] OTHER -> <<"zero", "zero">>

\* v is x / 1000 exactly
IsThousandths(v, x) == v * 1000 = x

\* v is x / 1000 with the fraction cut off
IsTruncatedThousandths(v, x) == v * 1000 <= x /\ x < (v + 1) * 1000

\* C33 (as claimed): the value written to a side at the full level is
\* (speed / 10) * 2.25 and at the half level (speed / 10) * 1.125.
C33_Magnitudes ==
  [][(EvalPass /\ MovementOf(EvalBuffer) # "none") =>
       LET lv == Levels(MovementOf(EvalBuffer))
           base == BLE_Change_SPEED \div 10
           Is(v, l) == CASE l = "full" -> IsThousandths(v, base * 2250)
                         [] l = "half" -> IsThousandths(v, base * 1125)
                         [] OTHER -> v = 0
       IN Is(pins'.a5, lv[1]) /\ Is(pins'.a6, lv[2])]_vars

\* C33 (amended): the value written to a side at the full level is
\* (speed / 10) * 22.5 and at the half level (speed / 10) * 11.25, each with
\* its fraction cut off.
C33_MagnitudesTruncated ==
  [][(EvalPass /\ MovementOf(EvalBuffer) # "none") =>
       LET lv == Levels(MovementOf(EvalBuffer))
           base == BLE_Change_SPEED \div 10
           Is(v, l) == CASE l = "full" -> IsTruncatedThousandths(v, base * 22500)
                         [] l = "half" -> IsTruncatedThousandths(v, base * 11250)
                         [] OTHER -> v = 0
       IN /\ BLE_Change_SPEED \in Speeds
          /\ Is(pins'.a5, lv[1]) /\ Is(pins'.a6, lv[2])]_vars

\* C33 witness: Right decoded at speed 30: 3 * 11.25 = 33.75 is written as 33
\* on both sides.
C33_Witness ==
  /\ decoded = "R" /\ BLE_Change_SPEED = 30
  /\ pins = [d2 |-> "HIGH", a5 |-> 33, d4 |-> "HIGH", a6 |-> 33]

\* ------------------------------------------------------------------------
\* The release after a press, byte by byte
\* ------------------------------------------------------------------------

\* The oldest pending write reaches the vehicle's serial port whether or not
\* the sketch has read the bytes before it: loop() appends every byte that
\* is available to the same buffer.
TransmitAnytime ==
  /\ Pending # <<>>
  /\ Len(serial) + Len(Head(Pending).cmd) <= MaxSerial
  /\ serial' = serial \o Head(Pending).cmd
  /\ out' = Tail(Pending)
  /\ UNCHANGED <<variant, inRange, gatt, sessVars, scanVars, speed, mapVars, linkVars, pressed,
                 G_Bluetooth_value, BLE_Change_SPEED, lastMovementCommand, pins, decoded>>

\* The D-pad of the first App with the sketch behind d1: a handler runs once
\* the write of the handler before has left the phone.
ReleaseNext ==
  \/ Pending = <<>> /\ scanCalls.check + scanCalls.perm = 0 /\ scanForDevices
  \/ Pending = <<>> /\ ScanChecked
  \/ Pending = <<>> /\ ScanPermitted
  \/ Pending = <<>> /\ ScanObserved
  \/ \E d \in Devices : Pending = <<>> /\ connectToDevice(d)
  \/ \E d \in Devices : Pending = <<>> /\ Connected(d)
  \/ \E d \in Devices : Pending = <<>> /\ Discovered(d)
  \/ \E d \in Devices : Pending = <<>> /\ Resolved(d)
  \/ \E key \in DpadKeys : Pending = <<>> /\ PressStart(key)
  \/ Pending = <<>> /\ PressEnd
  \/ TransmitAnytime
  \/ Evaluate

InitGesture == InitD1 /\ variant = "gesture"

SpecRelease == InitGesture /\ [][ReleaseNext]_vars

\* C34 (as claimed): in a transmit-ready session of the first App with no
\* key held, the last command transmitted is the Stop of a release (or the
\* '/' of the connect effect); once every byte is delivered and evaluated
\* the vehicle's last movement is Stop and both duties are zero.
C34_StopNotLost ==
  (ReadyTrue /\ pressed = NoPress /\ NothingInFlight) =>
    (lastMovementCommand = "S" /\ pins.a5 = 0 /\ pins.a6 = 0)

\* ------------------------------------------------------------------------
\* The stored speed and the step commands
\* ------------------------------------------------------------------------

\* C35 (as claimed): handleSpeedChange changes the stored speed only when
\* its step commands are written to the characteristic; called in a session
\* that is not transmit-ready it leaves the speed as it was.
C35_SpeedChangesWithWrites ==
  [][\A delta \in Deltas :
       handleSpeedChange(delta) =>
         /\ speed' # speed =>
              (out' # <<>> /\ \A i \in 1..Len(out') : IsWrite(out'[i]))
         /\ ~ReadyTrue => speed' = speed]_vars

\* ------------------------------------------------------------------------
\* What the vehicle decodes from the controller's bytes
\* ------------------------------------------------------------------------

\* The D-pad of either App with the sketch behind d1, byte by byte
DpadNext ==
  \/ ReleaseNext
  \/ \E key \in DpadKeys : Pending = <<>> /\ handleDirection(key)

SpecDpad == InitD1 /\ [][DpadNext]_vars

\* C36 (as claimed): under the default mapping the vehicle never decodes a
\* diagonal and never records one as its last movement.
C36_NoDiagonalDecoded ==
  (commandMap = DEFAULT_COMMANDS) =>
    (decoded \notin Diagonals /\ lastMovementCommand \notin Diagonals)

\* ------------------------------------------------------------------------
\* Who owns the write target
\* ------------------------------------------------------------------------

\* C37 (as claimed): serviceUUID and characteristicUUID are both set or both
\* null, and they are set only while device is set.
C37_WriteTargetOwned ==
  /\ (serviceUUID = NULL) <=> (characteristicUUID = NULL)
  /\ serviceUUID # NULL => device # NULL


\* ---------------------------------------------------------------------
\* The first command of a session
\* ---------------------------------------------------------------------

\* C38: the step that makes the session Ready(true) writes, and the first
\* command it writes to the resolved target is "/"; as nothing is written
\* while the session is not Ready(true), no direction, stop or speed-step
\* command of the session precedes the "/".
C38_ResetComesFirst ==
  [][(~ReadyTrue /\ ReadyTrue') =>
       /\ Pending' # <<>>
       /\ Head(Pending') = Write(device', serviceUUID', characteristicUUID', <<"/">>)]_vars

\* ---------------------------------------------------------------------
\* The scanning flag and the transport
\* ---------------------------------------------------------------------

\* C39: whenever a transport scan is in flight the session's isScanning
\* flag is true.
C39_FlagTracksScan == scanning => isScanning

\* ---------------------------------------------------------------------
\* Scanning while a connection is made or held
\* ---------------------------------------------------------------------

\* C40: while a connectToDevice call is running, and while a device
\* reference is held, no transport scan is in flight and no scan-timeout
\* timer is pending.
C40_NoScanWhileConnected ==
  (Attempts # {} \/ device # NULL) => (~scanning /\ PendingTimers = 0)

====
